---- MODULE Spec2Model ----
(***************************************************************************)
(* Booking core of the hostel room-booking application: the booking        *)
(* routes POST /api/bookings, PUT and DELETE /api/bookings/:id, run by     *)
(* concurrent request handlers against one reservation store, and the      *)
(* pure helpers of lib/availability they call.                             *)
(*                                                                         *)
(* Instants are minutes of server-local time counted from the local        *)
(* midnight of day 0.  Day 0 is a Sunday and the 29th of a 30-day month,   *)
(* so day 2 is the 1st of the following month.                             *)
(***************************************************************************)
EXTENDS Integers, Sequences, FiniteSets, TLC

VARIABLES bookings, snapshots, now, pc, req, loc, res, nreq

vars == <<bookings, snapshots, now, pc, req, loc, res, nreq>>

(***************************************************************************)
(* Program constants                                                       *)
(***************************************************************************)
SLOT_MINUTES == 30
MAX_BOOKING_HOURS == 2
DAILY_BOOKING_CAP == 2
WEEKLY_HOURS_CAP == 6
LEAD_MINUTES == 15
MinutesPerHour == 60
MinutesPerDay == 1440
DaysPerWeek == 7
\* operating hours of the slot generator, in lib/utils and in lib/availability
startHour == 0
endHour == 24
availabilityStartHour == 8
availabilityEndHour == 22

(***************************************************************************)
(* Bounds of the model                                                     *)
(***************************************************************************)
\* rows the Booking table may hold
MaxBookings == 3
\* requests served in a run with two concurrent handlers
MaxRequests == 3
\* requests served in a run with one handler
MaxSeqRequests == 3
\* rows of the table and requests served in the runs of one user that books
\* up to the weekly cap
MaxQuotaBookings == 4
MaxQuotaRequests == 5
\* rows of the table and requests served in the runs that read the
\* availability view
MaxViewBookings == 3
MaxViewRequests == 4
\* rows of the table and requests served in the runs that move a
\* reservation to another day or hour
MaxMoveBookings == 3
MaxMoveRequests == 4

Handlers == {1, 2}
Users == {"u1", "u2"}

(***************************************************************************)
(* Calendar: date-fns startOfDay / isSameDay and Date getDay / getDate /   *)
(* setDate, in server-local time.                                          *)
(***************************************************************************)
At(day, hh, mm) == day * MinutesPerDay + hh * MinutesPerHour + mm

DayIndex(t) == t \div MinutesPerDay

startOfDay(t) == DayIndex(t) * MinutesPerDay

addMinutes(t, m) == t + m

isSameDay(a, b) == startOfDay(a) = startOfDay(b)

\* Date.prototype.getDay: 0 is Sunday
getDay(t) == DayIndex(t) % DaysPerWeek

\* day index of the 1st of the month that holds instant t: day 2 is a 1st and
\* the month before it has 30 days
MonthStartDay(t) == IF DayIndex(t) >= 2 THEN 2 ELSE 2 - 30

\* Date.prototype.getDate: day of the month, from 1
getDate(t) == DayIndex(t) - MonthStartDay(t) + 1

\* Date.prototype.setDate(n) on instant t: day n of t's month, n <= 0 rolling
\* back into the previous month; the time of day is kept
setDate(t, n) == (MonthStartDay(t) + n - 1) * MinutesPerDay + (t % MinutesPerDay)

(***************************************************************************)
(* Rooms (prisma/seed: an INVENTORY/BLOCKED and a STUDY/ACTIVE room per    *)
(* hostel, ids counted from 1; rooms 5 to 7 stand for rooms with the other *)
(* values of RoomType and RoomStatus) and the values requests are drawn    *)
(* from.                                                                   *)
(***************************************************************************)
NoRoom == [type |-> "NONE", status |-> "NONE"]

Room(id) ==
    CASE id \in {1, 3} -> [type |-> "INVENTORY", status |-> "BLOCKED"]
      [] id \in {2, 4} -> [type |-> "STUDY", status |-> "ACTIVE"]
      [] id = 5 -> [type |-> "STUDY", status |-> "MAINTENANCE"]
      [] id = 6 -> [type |-> "STUDY", status |-> "BLOCKED"]
      [] id = 7 -> [type |-> "OTHER", status |-> "ACTIVE"]
      [] OTHER -> NoRoom

\* a request field that is absent (undefined)
NoTime == -1
NoPurpose == "undefined"
NoParty == 0

\* bodies an update request may carry; an absent field is undefined
Body(startTime, endTime, purpose, partySize) ==
    [startTime |-> startTime, endTime |-> endTime, purpose |-> purpose,
     partySize |-> partySize]

\* The requests of a run with two concurrent handlers: two users; the blocked
\* inventory room and the two active study rooms; on Tuesday (day 2) two
\* adjacent one-hour windows, a window longer than two hours and a window
\* ending at the next midnight; updates that move the end or the start of a
\* reservation.  The clock stands still.
RaceLoad ==
    [handlers |-> Handlers,
     users |-> Users,
     rooms |-> {1, 2, 4},
     windows |-> { <<At(2, 10, 0), At(2, 11, 0)>>, <<At(2, 11, 0), At(2, 12, 0)>>,
                   <<At(2, 10, 0), At(2, 12, 30)>>, <<At(2, 23, 0), At(3, 0, 0)>> },
     bodies |-> { Body(NoTime, At(2, 12, 0), NoPurpose, NoParty),
                  Body(At(2, 10, 0), NoTime, NoPurpose, NoParty),
                  Body(NoTime, At(2, 12, 30), NoPurpose, NoParty) },
     clock |-> {},
     maxBookings |-> MaxBookings,
     maxRequests |-> MaxRequests]

\* The requests of a run with one handler: two users; the two active study
\* rooms; two-hour windows on Tuesday and on Saturday (day 6) and a one-hour
\* window on the next Sunday (day 7); updates of the purpose, or of the end
\* to Sunday noon, which lengthens the Sunday reservation.  The clock starts
\* 15 minutes before 10:00 and passes 9:50, 10:00 and 12:00.
SeqLoad ==
    [handlers |-> {1},
     users |-> Users,
     rooms |-> {2, 4},
     windows |-> { <<At(2, 10, 0), At(2, 12, 0)>>, <<At(6, 10, 0), At(6, 12, 0)>>,
                   <<At(7, 10, 0), At(7, 11, 0)>> },
     bodies |-> { Body(NoTime, At(7, 12, 0), NoPurpose, NoParty),
                  Body(NoTime, NoTime, "exam", NoParty) },
     clock |-> { At(2, 9, 50), At(2, 10, 0), At(2, 12, 0) },
     maxBookings |-> MaxBookings,
     maxRequests |-> MaxSeqRequests]

\* The requests of a run of one user with one handler: an active study room,
\* a study room in maintenance, a blocked study room, an active room of
\* another type and a room id that is not in the table; two-hour windows on Tuesday and
\* Wednesday and half-hour windows on Thursday and Friday of one week; an
\* update of the end to Friday noon, which lengthens the Friday reservation
\* to two hours.  The clock stands still.
QuotaLoad ==
    [handlers |-> {1},
     users |-> {"u1"},
     rooms |-> {2, 5, 6, 7, 9},
     windows |-> { <<At(2, 10, 0), At(2, 12, 0)>>, <<At(3, 10, 0), At(3, 12, 0)>>,
                   <<At(4, 10, 0), At(4, 10, 30)>>, <<At(5, 10, 0), At(5, 10, 30)>> },
     bodies |-> { Body(NoTime, At(5, 12, 0), NoPurpose, NoParty) },
     clock |-> {},
     maxBookings |-> MaxQuotaBookings,
     maxRequests |-> MaxQuotaRequests]

\* The requests of a run with two concurrent handlers that contend for one
\* room: two users; an active study room; on Tuesday two windows of one hour
\* that overlap; updates of the end to noon, of the purpose alone and of the
\* party size alone.  The clock stands still.
ContendLoad ==
    [handlers |-> Handlers,
     users |-> Users,
     rooms |-> {2},
     windows |-> { <<At(2, 10, 0), At(2, 11, 0)>>, <<At(2, 10, 30), At(2, 11, 30)>> },
     bodies |-> { Body(NoTime, At(2, 12, 0), NoPurpose, NoParty),
                  Body(NoTime, NoTime, "exam", NoParty),
                  Body(NoTime, NoTime, NoPurpose, 4) },
     clock |-> {},
     maxBookings |-> MaxBookings,
     maxRequests |-> MaxRequests]

\* The requests of a run of one user with one handler that moves a
\* reservation to another day: the two active study rooms; the hour from
\* 10:00 on Tuesday and on Wednesday; an update of start and end to the hour
\* from noon on Tuesday, and an update of the end to Wednesday noon, which
\* lengthens the Wednesday reservation.  The clock stands still.
MoveLoad ==
    [handlers |-> {1},
     users |-> {"u1"},
     rooms |-> {2, 4},
     windows |-> { <<At(2, 10, 0), At(2, 11, 0)>>, <<At(3, 10, 0), At(3, 11, 0)>> },
     bodies |-> { Body(At(2, 12, 0), At(2, 13, 0), NoPurpose, NoParty),
                  Body(NoTime, At(3, 12, 0), NoPurpose, NoParty) },
     clock |-> {},
     maxBookings |-> MaxMoveBookings,
     maxRequests |-> MaxMoveRequests]

\* The requests of a run of one user with one handler that asks for hours
\* that have begun: an active study room; on Tuesday the hour from 9:00,
\* which began before the clock's 9:45, and the hour from 10:00; an update of
\* start and end to the hour from 9:00, and an update of the end to noon,
\* which lengthens a reservation.  The clock stands still.
LateLoad ==
    [handlers |-> {1},
     users |-> {"u1"},
     rooms |-> {2},
     windows |-> { <<At(2, 9, 0), At(2, 10, 0)>>, <<At(2, 10, 0), At(2, 11, 0)>> },
     bodies |-> { Body(At(2, 9, 0), At(2, 10, 0), NoPurpose, NoParty),
                  Body(NoTime, At(2, 12, 0), NoPurpose, NoParty) },
     clock |-> {},
     maxBookings |-> MaxMoveBookings,
     maxRequests |-> MaxMoveRequests]

\* The requests of a run whose store the availability view is read from: one
\* user and one active study room; today (Tuesday) the 10:00 slot and a
\* half hour from 10:15 that is not aligned to the slots, on Wednesday the
\* two hours from 14:00; an update of the end to 11:00 today, which lengthens
\* today's reservations.  The clock starts at 9:45 and passes 10:00.
ViewLoad ==
    [handlers |-> {1},
     users |-> {"u1"},
     rooms |-> {2},
     windows |-> { <<At(2, 10, 0), At(2, 10, 30)>>, <<At(2, 10, 15), At(2, 10, 45)>>,
                   <<At(3, 14, 0), At(3, 16, 0)>> },
     bodies |-> { Body(NoTime, At(2, 11, 0), NoPurpose, NoParty) },
     clock |-> { At(2, 10, 0) },
     maxBookings |-> MaxViewBookings,
     maxRequests |-> MaxViewRequests]

(***************************************************************************)
(* The Booking table.  A row's id is its index in bookings; rows are never *)
(* deleted.                                                                *)
(***************************************************************************)
NoRow ==
    [roomId |-> 0, userId |-> "", startTime |-> NoTime, endTime |-> NoTime,
     status |-> "NONE", purpose |-> NoPurpose, partySize |-> NoParty,
     updatedAt |-> NoTime]

Ids(bs) == 1 .. Len(bs)

\* booking.endTime.getTime() - booking.startTime.getTime(), in minutes
Duration(b) == b.endTime - b.startTime

RECURSIVE SumDurations(_, _)
SumDurations(bs, S) ==
    IF S = {} THEN 0
    ELSE LET i == CHOOSE x \in S : TRUE
         IN  Duration(bs[i]) + SumDurations(bs, S \ {i})

(***************************************************************************)
(* lib/availability: pure validation helpers.  Durations are kept in       *)
(* minutes; a comparison of hours against a cap compares minutes against   *)
(* the cap times 60.                                                       *)
(***************************************************************************)
Slot(startTime, endTime) == [startTime |-> startTime, endTime |-> endTime]

\* mutant: the maximum duration is not checked
validateBookingSlotsNoMax(startSlot, endSlot) ==
    LET durationMin == endSlot.endTime - startSlot.startTime
    IN  IF ~isSameDay(startSlot.startTime, endSlot.startTime)
        THEN [isValid |-> FALSE, error |-> "validation_midnight", duration |-> durationMin]
        ELSE IF durationMin <= 0
        THEN [isValid |-> FALSE, error |-> "validation_end", duration |-> durationMin]
        ELSE [isValid |-> TRUE, error |-> "none", duration |-> durationMin]

validateBookingSlots(startSlot, endSlot) ==
    LET durationMin == endSlot.endTime - startSlot.startTime
    IN  IF ~isSameDay(startSlot.startTime, endSlot.startTime)
        THEN [isValid |-> FALSE, error |-> "validation_midnight", duration |-> durationMin]
        ELSE IF durationMin > MAX_BOOKING_HOURS * MinutesPerHour
        THEN [isValid |-> FALSE, error |-> "validation_max", duration |-> durationMin]
        ELSE IF durationMin <= 0
        THEN [isValid |-> FALSE, error |-> "validation_end", duration |-> durationMin]
        ELSE [isValid |-> TRUE, error |-> "none", duration |-> durationMin]

\* mutant: exactly the lead time is turned down too
validateBookingModificationTimingStrict(bookingStartTime, clock) ==
    LET minutesUntilBooking == bookingStartTime - clock
    IN  IF minutesUntilBooking <= 0
        THEN [canModify |-> FALSE, error |-> "timing_started"]
        ELSE IF minutesUntilBooking <= LEAD_MINUTES
        THEN [canModify |-> FALSE, error |-> "timing_lead"]
        ELSE [canModify |-> TRUE, error |-> "none"]

validateBookingModificationTiming(bookingStartTime, clock) ==
    LET minutesUntilBooking == bookingStartTime - clock
    IN  IF minutesUntilBooking <= 0
        THEN [canModify |-> FALSE, error |-> "timing_started"]
        ELSE IF minutesUntilBooking < LEAD_MINUTES
        THEN [canModify |-> FALSE, error |-> "timing_lead"]
        ELSE [canModify |-> TRUE, error |-> "none"]

(***************************************************************************)
(* checkUserBookingLimits: the daily count query, the weekly findMany      *)
(* query, and the decision taken from their two results.                   *)
(***************************************************************************)
\* mutant: the week starts on Monday
WeekStartMonday(date) == setDate(startOfDay(date), getDate(date) - getDay(date) + 1)

WeekStart(date) == setDate(startOfDay(date), getDate(date) - getDay(date))

DailyBookings(bs, userId, date) ==
    LET dayStart == startOfDay(date)
    IN  { i \in Ids(bs) :
            /\ bs[i].userId = userId
            /\ bs[i].startTime >= dayStart
            /\ bs[i].startTime < addMinutes(dayStart, MinutesPerDay)
            /\ bs[i].status # "CANCELLED" }

WeeklyBookings(bs, userId, date) ==
    LET weekStart == WeekStart(date)
    IN  { i \in Ids(bs) :
            /\ bs[i].userId = userId
            /\ bs[i].startTime >= weekStart
            /\ bs[i].startTime < addMinutes(weekStart, DaysPerWeek * MinutesPerDay)
            /\ bs[i].status # "CANCELLED" }

CountDaily(bs, userId, date) == Cardinality(DailyBookings(bs, userId, date))

WeeklyMinutes(bs, userId, date) == SumDurations(bs, WeeklyBookings(bs, userId, date))

\* mutant: the daily cap is compared with > instead of >=
LimitsResultOffByOne(dailyBookings, weeklyMin) ==
    IF dailyBookings > DAILY_BOOKING_CAP
    THEN [canBook |-> FALSE, dailyCount |-> dailyBookings, weeklyMin |-> weeklyMin,
          error |-> "quota_daily"]
    ELSE IF weeklyMin >= WEEKLY_HOURS_CAP * MinutesPerHour
    THEN [canBook |-> FALSE, dailyCount |-> dailyBookings, weeklyMin |-> weeklyMin,
          error |-> "quota_weekly"]
    ELSE [canBook |-> TRUE, dailyCount |-> dailyBookings, weeklyMin |-> weeklyMin,
          error |-> "none"]

LimitsResult(dailyBookings, weeklyMin) ==
    IF dailyBookings >= DAILY_BOOKING_CAP
    THEN [canBook |-> FALSE, dailyCount |-> dailyBookings, weeklyMin |-> weeklyMin,
          error |-> "quota_daily"]
    ELSE IF weeklyMin >= WEEKLY_HOURS_CAP * MinutesPerHour
    THEN [canBook |-> FALSE, dailyCount |-> dailyBookings, weeklyMin |-> weeklyMin,
          error |-> "quota_weekly"]
    ELSE [canBook |-> TRUE, dailyCount |-> dailyBookings, weeklyMin |-> weeklyMin,
          error |-> "none"]

\* the function run against one state of the store
checkUserBookingLimits(bs, userId, date) ==
    LimitsResult(CountDaily(bs, userId, date), WeeklyMinutes(bs, userId, date))

\* validateModifiedBookingLimits, given the limits it read
ModifiedLimitsValid(original, newStartTime, newEndTime, limitsCheck) ==
    LET originalMin == original.endTime - original.startTime
        newMin == newEndTime - newStartTime
    IN  IF newMin > originalMin
        THEN ~( /\ ~limitsCheck.canBook
                /\ limitsCheck.weeklyMin + (newMin - originalMin)
                       > WEEKLY_HOURS_CAP * MinutesPerHour )
        ELSE TRUE

(***************************************************************************)
(* Slot generator.  A slot id is the formatted date with the hour and the  *)
(* minute of the slot; a formatted date (yyyy-MM-dd) is the month, named   *)
(* by the day index of its first day, with the day of the month.           *)
(***************************************************************************)
formatDate(t) == <<MonthStartDay(t), getDate(t)>>

\* passes of the inner loop: minute = 0, SLOT_MINUTES, ... while minute < 60
SlotsPerHour == (MinutesPerHour + SLOT_MINUTES - 1) \div SLOT_MINUTES

\* the slot pushed for one hour and minute of the loops
TimeSlot(date, hour, minute, isAvailable) ==
    LET startTime == addMinutes(startOfDay(date), hour * MinutesPerHour + minute)
    IN  [id |-> <<formatDate(date), hour, minute>>,
         startTime |-> startTime,
         endTime |-> addMinutes(startTime, SLOT_MINUTES),
         date |-> formatDate(date),
         isAvailable |-> isAvailable]

\* the k-th slot pushed by the loops over hour = first .. last - 1
LoopSlot(date, clock, first, k, seedPast) ==
    LET hour == first + (k - 1) \div SlotsPerHour
        minute == ((k - 1) % SlotsPerHour) * SLOT_MINUTES
        startTime == addMinutes(startOfDay(date), hour * MinutesPerHour + minute)
    IN  TimeSlot(date, hour, minute,
                 ~(seedPast /\ isSameDay(date, clock) /\ startTime <= clock))

\* mutant: the loop over the hours runs up to and including endHour
generateTimeSlotsInclusive(date, clock) ==
    [k \in 1 .. (endHour + 1 - startHour) * SlotsPerHour |->
        LoopSlot(date, clock, startHour, k, TRUE)]

\* lib/utils: slots of the whole day; the slots of today that have started
\* are seeded unavailable
generateTimeSlots(date, clock) ==
    [k \in 1 .. (endHour - startHour) * SlotsPerHour |->
        LoopSlot(date, clock, startHour, k, TRUE)]

\* lib/availability: slots from 8:00 to 22:00, all seeded available
availabilityGenerateTimeSlots(date) ==
    [k \in 1 .. (availabilityEndHour - availabilityStartHour) * SlotsPerHour |->
        LoopSlot(date, date, availabilityStartHour, k, FALSE)]

(***************************************************************************)
(* Availability view of a room on a date, read from one state of the       *)
(* store.  The fields isMyBooking and bookingId of a slot, which depend on *)
(* the caller, are left out.                                               *)
(***************************************************************************)
\* mutant: the query of the room's reservations keeps the cancelled ones
DayBookingsWithCancelled(bs, roomId, date) ==
    { i \in Ids(bs) :
        /\ bs[i].roomId = roomId
        /\ bs[i].startTime >= startOfDay(date)
        /\ bs[i].endTime <= addMinutes(startOfDay(date), MinutesPerDay) }

\* room.findUnique include bookings: the room's non-cancelled rows that
\* start and end within the day of the date
DayBookings(bs, roomId, date) ==
    { i \in Ids(bs) :
        /\ bs[i].roomId = roomId
        /\ bs[i].startTime >= startOfDay(date)
        /\ bs[i].endTime <= addMinutes(startOfDay(date), MinutesPerDay)
        /\ bs[i].status # "CANCELLED" }

\* bookedSlots.has(slot.id): some row of the query holds the whole slot
SlotBooked(bs, found, slot) ==
    \E i \in found :
        slot.startTime >= bs[i].startTime /\ slot.endTime <= bs[i].endTime

getRoomAvailability(bs, roomId, date, clock) ==
    LET found == DayBookings(bs, roomId, date)
        slots == generateTimeSlots(date, clock)
        updatedSlots ==
            [k \in DOMAIN slots |->
                [slots[k] EXCEPT !.isAvailable = @ /\ ~SlotBooked(bs, found, slots[k])]]
    IN  IF Room(roomId) = NoRoom
        THEN [error |-> "Room not found", roomId |-> roomId, slots |-> <<>>,
              availableSlots |-> 0, totalSlots |-> 0]
        ELSE [error |-> "none", roomId |-> roomId, slots |-> updatedSlots,
              availableSlots |->
                  Cardinality({ k \in DOMAIN slots : updatedSlots[k].isAvailable }),
              totalSlots |-> Len(slots)]

(***************************************************************************)
(* Store queries and constraints of the booking routes.                    *)
(***************************************************************************)
\* mutant: the bounds of the intervals are compared inclusively
ConflictsClosed(bs, roomId, startTime, endTime, exceptId) ==
    { i \in Ids(bs) :
        /\ i # exceptId
        /\ bs[i].roomId = roomId
        /\ bs[i].startTime <= endTime
        /\ bs[i].endTime >= startTime
        /\ bs[i].status # "CANCELLED" }

\* findFirst: a non-cancelled row of the room that intersects [startTime, endTime)
Conflicts(bs, roomId, startTime, endTime, exceptId) ==
    { i \in Ids(bs) :
        /\ i # exceptId
        /\ bs[i].roomId = roomId
        /\ bs[i].startTime < endTime
        /\ bs[i].endTime > startTime
        /\ bs[i].status # "CANCELLED" }

\* mutant: the room lookup does not filter on the type
RoomAvailableAnyType(roomId) == Room(roomId).status = "ACTIVE"

\* room.findUnique({ id, type: 'STUDY', status: 'ACTIVE' })
RoomAvailable(roomId) ==
    Room(roomId).type = "STUDY" /\ Room(roomId).status = "ACTIVE"

\* @@unique([roomId, startTime, endTime]): a row other than exceptId holds the triple
UniqueViolation(bs, roomId, startTime, endTime, exceptId) ==
    \E i \in Ids(bs) :
        /\ i # exceptId
        /\ bs[i].roomId = roomId
        /\ bs[i].startTime = startTime
        /\ bs[i].endTime = endTime

\* Math.ceil of a number of minutes taken as hours
CeilHours(m) == (m + MinutesPerHour - 1) \div MinutesPerHour

(***************************************************************************)
(* Request handlers.  Each handler runs one request at a time; every       *)
(* awaited store statement is one step.                                    *)
(***************************************************************************)
NoReq ==
    [op |-> "NONE", userId |-> "", target |-> 0, startTime |-> NoTime,
     endTime |-> NoTime, purpose |-> NoPurpose, partySize |-> NoParty]

NoLoc == [existing |-> NoRow, daily |-> 0, weekly |-> 0, doomed |-> FALSE]

Init ==
    /\ bookings = <<>>
    /\ snapshots = {}
    /\ now = At(2, 9, 45)
    /\ pc = [h \in Handlers |-> "idle"]
    /\ req = [h \in Handlers |-> NoReq]
    /\ loc = [h \in Handlers |-> NoLoc]
    /\ res = [h \in Handlers |-> "none"]
    /\ nreq = 0

\* create requests that may still insert a row
InFlightPosts == { h \in Handlers : req[h].op = "POST" /\ pc[h] \notin {"idle", "done"} }

Goto(h, label) == pc' = [pc EXCEPT ![h] = label]

Respond(h, result) ==
    /\ pc' = [pc EXCEPT ![h] = "done"]
    /\ res' = [res EXCEPT ![h] = result]

(***************************************************************************)
(* POST /api/bookings                                                      *)
(***************************************************************************)
PostReceive(h, W) ==
    /\ pc[h] = "idle"
    /\ nreq < W.maxRequests
    /\ Len(bookings) + Cardinality(InFlightPosts) < W.maxBookings
    /\ \E userId \in W.users, roomId \in W.rooms, w \in W.windows :
         LET startTime == w[1]
             endTime == w[2]
             slotValidation ==
                 validateBookingSlots(Slot(startTime, startTime), Slot(endTime, endTime))
         IN  /\ req' = [req EXCEPT ![h] =
                          [op |-> "POST", userId |-> userId, target |-> roomId,
                           startTime |-> startTime, endTime |-> endTime,
                           purpose |-> "study", partySize |-> 1]]
             /\ IF ~slotValidation.isValid
                THEN Respond(h, slotValidation.error)
                ELSE Goto(h, "post_daily") /\ UNCHANGED res
    /\ nreq' = nreq + 1
    /\ UNCHANGED <<bookings, snapshots, now, loc>>

PostCountDaily(h) ==
    /\ pc[h] = "post_daily"
    /\ loc' = [loc EXCEPT ![h].daily = CountDaily(bookings, req[h].userId, req[h].startTime)]
    /\ Goto(h, "post_weekly")
    /\ UNCHANGED <<bookings, snapshots, now, req, res, nreq>>

PostWeekly(h) ==
    /\ pc[h] = "post_weekly"
    /\ LET weeklyMin == WeeklyMinutes(bookings, req[h].userId, req[h].startTime)
           limitsCheck == LimitsResult(loc[h].daily, weeklyMin)
       IN  /\ loc' = [loc EXCEPT ![h].weekly = weeklyMin]
           /\ IF ~limitsCheck.canBook
              THEN Respond(h, limitsCheck.error)
              ELSE Goto(h, "post_tx") /\ UNCHANGED res
    /\ UNCHANGED <<bookings, snapshots, now, req, nreq>>

\* mutant: the row is inserted ahead of the room check and is not rolled back
PostTxReadNoRollback(h) ==
    /\ pc[h] = "post_tx"
    /\ IF Conflicts(bookings, req[h].target, req[h].startTime, req[h].endTime, 0) # {}
       THEN Respond(h, "conflict") /\ UNCHANGED bookings
       ELSE IF ~RoomAvailable(req[h].target)
       THEN /\ Respond(h, "unavailable")
            /\ bookings' = Append(bookings,
                   [roomId |-> req[h].target, userId |-> req[h].userId,
                    startTime |-> req[h].startTime, endTime |-> req[h].endTime,
                    status |-> "CONFIRMED", purpose |-> req[h].purpose,
                    partySize |-> req[h].partySize, updatedAt |-> now])
       ELSE Goto(h, "post_commit") /\ UNCHANGED <<res, bookings>>
    /\ UNCHANGED <<snapshots, now, req, loc, nreq>>

\* the transaction's reads, both on the snapshot it starts with
PostTxRead(h) ==
    /\ pc[h] = "post_tx"
    /\ IF Conflicts(bookings, req[h].target, req[h].startTime, req[h].endTime, 0) # {}
       THEN Respond(h, "conflict")
       ELSE IF ~RoomAvailable(req[h].target)
       THEN Respond(h, "unavailable")
       ELSE Goto(h, "post_commit") /\ UNCHANGED res
    /\ UNCHANGED <<bookings, snapshots, now, req, loc, nreq>>

NewBooking(r, clock) ==
    [roomId |-> r.target, userId |-> r.userId, startTime |-> r.startTime,
     endTime |-> r.endTime, status |-> "CONFIRMED", purpose |-> r.purpose,
     partySize |-> r.partySize, updatedAt |-> clock]

NewSnapshot(bookingId, r, l) ==
    [bookingId |-> bookingId, userId |-> r.userId, dailyCount |-> l.daily + 1,
     weeklyCount |-> CeilHours(l.weekly + (r.endTime - r.startTime))]

\* the serializable transactions that read a range this insert falls in
DoomedBy(h) ==
    { g \in Handlers \ {h} :
        /\ pc[g] = "post_commit"
        /\ req[g].target = req[h].target
        /\ req[h].startTime < req[g].endTime
        /\ req[h].endTime > req[g].startTime }

\* mutant: a transaction that cannot be serialized waits and is never answered
PostTxCommitHangs(h) ==
    /\ pc[h] = "post_commit"
    /\ ~loc[h].doomed
    /\ IF UniqueViolation(bookings, req[h].target, req[h].startTime, req[h].endTime, 0)
       THEN /\ Respond(h, "unique")
            /\ UNCHANGED <<bookings, snapshots, loc>>
       ELSE /\ bookings' = Append(bookings, NewBooking(req[h], now))
            /\ snapshots' = snapshots \cup {NewSnapshot(Len(bookings) + 1, req[h], loc[h])}
            /\ loc' = [g \in Handlers |->
                         IF g \in DoomedBy(h) THEN [loc[g] EXCEPT !.doomed = TRUE] ELSE loc[g]]
            /\ Respond(h, "created")
    /\ UNCHANGED <<now, req, nreq>>

\* the transaction's writes and its commit
PostTxCommit(h) ==
    /\ pc[h] = "post_commit"
    /\ IF loc[h].doomed
       THEN /\ Respond(h, "serialization")
            /\ UNCHANGED <<bookings, snapshots, loc>>
       ELSE IF UniqueViolation(bookings, req[h].target, req[h].startTime, req[h].endTime, 0)
       THEN /\ Respond(h, "unique")
            /\ UNCHANGED <<bookings, snapshots, loc>>
       ELSE /\ bookings' = Append(bookings, NewBooking(req[h], now))
            /\ snapshots' = snapshots \cup {NewSnapshot(Len(bookings) + 1, req[h], loc[h])}
            /\ loc' = [g \in Handlers |->
                         IF g \in DoomedBy(h) THEN [loc[g] EXCEPT !.doomed = TRUE] ELSE loc[g]]
            /\ Respond(h, "created")
    /\ UNCHANGED <<now, req, nreq>>

(***************************************************************************)
(* PUT /api/bookings/:id                                                   *)
(***************************************************************************)
\* final values: the request's field, or the value read from the row
FinalStartTime(r, existing) == IF r.startTime # NoTime THEN r.startTime ELSE existing.startTime
FinalEndTime(r, existing) == IF r.endTime # NoTime THEN r.endTime ELSE existing.endTime
FinalPurpose(r, existing) == IF r.purpose # NoPurpose THEN r.purpose ELSE existing.purpose
FinalPartySize(r, existing) == IF r.partySize # NoParty THEN r.partySize ELSE existing.partySize

TimeSupplied(r) == r.startTime # NoTime \/ r.endTime # NoTime

\* the slot validation of the update route, on the final values
PutSlotValidation(r, existing) ==
    validateBookingSlots(
        Slot(FinalStartTime(r, existing), FinalStartTime(r, existing)),
        Slot(FinalEndTime(r, existing), FinalEndTime(r, existing)))

\* mutant: the update route does not compare the owner with the caller
PutChecksAnyCaller(r, existing, clock) ==
    LET timing == validateBookingModificationTiming(existing.startTime, clock)
        slotValidation == PutSlotValidation(r, existing)
        newMin == FinalEndTime(r, existing) - FinalStartTime(r, existing)
    IN  IF ~timing.canModify THEN [error |-> timing.error, next |-> "done"]
        ELSE IF ~TimeSupplied(r) THEN [error |-> "none", next |-> "put_update"]
        ELSE IF ~slotValidation.isValid THEN [error |-> slotValidation.error, next |-> "done"]
        ELSE IF newMin > Duration(existing) THEN [error |-> "none", next |-> "put_daily"]
        ELSE [error |-> "none", next |-> "put_conflict"]

\* the outcome of the checks that follow the read of the row: an error, or
\* the label of the next statement
PutChecks(r, existing, clock) ==
    LET timing == validateBookingModificationTiming(existing.startTime, clock)
        slotValidation == PutSlotValidation(r, existing)
        newMin == FinalEndTime(r, existing) - FinalStartTime(r, existing)
    IN  IF existing.userId # r.userId THEN [error |-> "forbidden", next |-> "done"]
        ELSE IF ~timing.canModify THEN [error |-> timing.error, next |-> "done"]
        ELSE IF ~TimeSupplied(r) THEN [error |-> "none", next |-> "put_update"]
        ELSE IF ~slotValidation.isValid THEN [error |-> slotValidation.error, next |-> "done"]
        ELSE IF newMin > Duration(existing) THEN [error |-> "none", next |-> "put_daily"]
        ELSE [error |-> "none", next |-> "put_conflict"]

PutReceive(h, W) ==
    /\ pc[h] = "idle"
    /\ nreq < W.maxRequests
    /\ \E userId \in W.users, id \in 1 .. W.maxBookings, body \in W.bodies :
         LET r == [op |-> "PUT", userId |-> userId, target |-> id,
                   startTime |-> body.startTime, endTime |-> body.endTime,
                   purpose |-> body.purpose, partySize |-> body.partySize]
         IN  /\ req' = [req EXCEPT ![h] = r]
             /\ IF id \notin Ids(bookings)
                THEN Respond(h, "not_found") /\ UNCHANGED loc
                ELSE LET c == PutChecks(r, bookings[id], now)
                     IN  /\ loc' = [loc EXCEPT ![h].existing = bookings[id]]
                         /\ IF c.next = "done"
                            THEN Respond(h, c.error)
                            ELSE Goto(h, c.next) /\ UNCHANGED res
    /\ nreq' = nreq + 1
    /\ UNCHANGED <<bookings, snapshots, now>>

PutCountDaily(h) ==
    /\ pc[h] = "put_daily"
    /\ loc' = [loc EXCEPT ![h].daily =
                 CountDaily(bookings, req[h].userId, FinalStartTime(req[h], loc[h].existing))]
    /\ Goto(h, "put_weekly")
    /\ UNCHANGED <<bookings, snapshots, now, req, res, nreq>>

PutWeekly(h) ==
    /\ pc[h] = "put_weekly"
    /\ LET newStartTime == FinalStartTime(req[h], loc[h].existing)
           newEndTime == FinalEndTime(req[h], loc[h].existing)
           weeklyMin == WeeklyMinutes(bookings, req[h].userId, newStartTime)
           limitsCheck == LimitsResult(loc[h].daily, weeklyMin)
       IN  /\ loc' = [loc EXCEPT ![h].weekly = weeklyMin]
           /\ IF ~ModifiedLimitsValid(loc[h].existing, newStartTime, newEndTime, limitsCheck)
              THEN Respond(h, "quota_weekly")
              ELSE Goto(h, "put_conflict") /\ UNCHANGED res
    /\ UNCHANGED <<bookings, snapshots, now, req, nreq>>

\* mutant: the conflict query does not exclude the reservation being modified
PutConflictCountsSelf(h) ==
    /\ pc[h] = "put_conflict"
    /\ IF Conflicts(bookings, loc[h].existing.roomId,
                    FinalStartTime(req[h], loc[h].existing),
                    FinalEndTime(req[h], loc[h].existing), 0) # {}
       THEN Respond(h, "conflict")
       ELSE Goto(h, "put_update") /\ UNCHANGED res
    /\ UNCHANGED <<bookings, snapshots, now, req, loc, nreq>>

PutConflict(h) ==
    /\ pc[h] = "put_conflict"
    /\ IF Conflicts(bookings, loc[h].existing.roomId,
                    FinalStartTime(req[h], loc[h].existing),
                    FinalEndTime(req[h], loc[h].existing), req[h].target) # {}
       THEN Respond(h, "conflict")
       ELSE Goto(h, "put_update") /\ UNCHANGED res
    /\ UNCHANGED <<bookings, snapshots, now, req, loc, nreq>>

\* mutant: only the supplied fields are written, the others stay as stored
UpdatedRowSuppliedOnly(row, r, existing, clock) ==
    [row EXCEPT !.startTime = FinalStartTime(r, row),
                !.endTime = FinalEndTime(r, row),
                !.purpose = FinalPurpose(r, row),
                !.partySize = FinalPartySize(r, row),
                !.updatedAt = clock]

\* db.booking.update of the update route: the four fields and updatedAt
UpdatedRow(row, r, existing, clock) ==
    [row EXCEPT !.startTime = FinalStartTime(r, existing),
                !.endTime = FinalEndTime(r, existing),
                !.purpose = FinalPurpose(r, existing),
                !.partySize = FinalPartySize(r, existing),
                !.updatedAt = clock]

PutUpdate(h) ==
    /\ pc[h] = "put_update"
    /\ LET id == req[h].target
       IN  IF UniqueViolation(bookings, bookings[id].roomId,
                              FinalStartTime(req[h], loc[h].existing),
                              FinalEndTime(req[h], loc[h].existing), id)
           THEN Respond(h, "unique") /\ UNCHANGED bookings
           ELSE /\ bookings' = [bookings EXCEPT ![id] =
                                  UpdatedRow(@, req[h], loc[h].existing, now)]
                /\ Respond(h, "updated")
    /\ UNCHANGED <<snapshots, now, req, loc, nreq>>

(***************************************************************************)
(* DELETE /api/bookings/:id                                                *)
(***************************************************************************)
\* mutant: the cancel route skips the timing rule
DeleteChecksNoTiming(r, existing, clock) ==
    IF existing.userId # r.userId THEN "forbidden" ELSE "none"

DeleteChecks(r, existing, clock) ==
    LET timing == validateBookingModificationTiming(existing.startTime, clock)
    IN  IF existing.userId # r.userId THEN "forbidden"
        ELSE IF ~timing.canModify THEN timing.error
        ELSE "none"

DeleteReceive(h, W) ==
    /\ pc[h] = "idle"
    /\ nreq < W.maxRequests
    /\ \E userId \in W.users, id \in 1 .. W.maxBookings :
         LET r == [NoReq EXCEPT !.op = "DELETE", !.userId = userId, !.target = id]
         IN  /\ req' = [req EXCEPT ![h] = r]
             /\ IF id \notin Ids(bookings)
                THEN Respond(h, "not_found") /\ UNCHANGED loc
                ELSE LET e == DeleteChecks(r, bookings[id], now)
                     IN  /\ loc' = [loc EXCEPT ![h].existing = bookings[id]]
                         /\ IF e # "none"
                            THEN Respond(h, e)
                            ELSE Goto(h, "delete_update") /\ UNCHANGED res
    /\ nreq' = nreq + 1
    /\ UNCHANGED <<bookings, snapshots, now>>

\* db.booking.update of the cancel route: status and updatedAt
CancelledRow(row, clock) == [row EXCEPT !.status = "CANCELLED", !.updatedAt = clock]

DeleteUpdate(h) ==
    /\ pc[h] = "delete_update"
    /\ bookings' = [bookings EXCEPT ![req[h].target] = CancelledRow(@, now)]
    /\ Respond(h, "cancelled")
    /\ UNCHANGED <<snapshots, now, req, loc, nreq>>

(***************************************************************************)
(* The response is sent and the handler is free again.                     *)
(***************************************************************************)
Return(h) ==
    /\ pc[h] = "done"
    /\ pc' = [pc EXCEPT ![h] = "idle"]
    /\ req' = [req EXCEPT ![h] = NoReq]
    /\ loc' = [loc EXCEPT ![h] = NoLoc]
    /\ res' = [res EXCEPT ![h] = "none"]
    /\ UNCHANGED <<bookings, snapshots, now, nreq>>

(***************************************************************************)
(* Environment: the clock, and the external trigger that completes a       *)
(* confirmed reservation whose time has passed.                            *)
(***************************************************************************)
Tick(W) ==
    /\ \E t \in W.clock : t > now /\ now' = t
    /\ UNCHANGED <<bookings, snapshots, pc, req, loc, res, nreq>>

CompleteBooking ==
    /\ \E i \in Ids(bookings) :
         /\ bookings[i].status = "CONFIRMED"
         /\ bookings[i].endTime <= now
         /\ bookings' = [bookings EXCEPT ![i].status = "COMPLETED", ![i].updatedAt = now]
    /\ UNCHANGED <<snapshots, now, pc, req, loc, res, nreq>>

\* the steps of the handlers of a load
Serve(W) ==
    \/ \E h \in W.handlers : PostReceive(h, W)
    \/ \E h \in W.handlers : PostCountDaily(h)
    \/ \E h \in W.handlers : PostWeekly(h)
    \/ \E h \in W.handlers : PostTxRead(h)
    \/ \E h \in W.handlers : PostTxCommit(h)
    \/ \E h \in W.handlers : PutReceive(h, W)
    \/ \E h \in W.handlers : PutCountDaily(h)
    \/ \E h \in W.handlers : PutWeekly(h)
    \/ \E h \in W.handlers : PutConflict(h)
    \/ \E h \in W.handlers : PutUpdate(h)
    \/ \E h \in W.handlers : DeleteReceive(h, W)
    \/ \E h \in W.handlers : DeleteUpdate(h)
    \/ \E h \in W.handlers : Return(h)

\* concurrent handlers, the clock standing still
Next == Serve(RaceLoad)

Spec == Init /\ [][Next]_vars

\* the statements a handler runs after it has received a request, up to and
\* including the sending of the response
Continue(h) ==
    \/ PostCountDaily(h)
    \/ PostWeekly(h)
    \/ PostTxRead(h)
    \/ PostTxCommit(h)
    \/ PutCountDaily(h)
    \/ PutWeekly(h)
    \/ PutConflict(h)
    \/ PutUpdate(h)
    \/ DeleteUpdate(h)
    \/ Return(h)

\* concurrent handlers that contend for one room
NextContend == Serve(ContendLoad)

SpecContend == Init /\ [][NextContend]_vars

\* the same, where the store answers every statement and the event loop
\* resumes every handler whose awaited statement has been answered
SpecLive == SpecContend /\ \A h \in Handlers : WF_vars(Continue(h))

\* one handler, with the clock and the completion trigger
NextSeq ==
    \/ Serve(SeqLoad)
    \/ Tick(SeqLoad)
    \/ CompleteBooking

SpecSeq == Init /\ [][NextSeq]_vars

\* one handler serving one user, the clock standing still
NextQuota == Serve(QuotaLoad)

SpecQuota == Init /\ [][NextQuota]_vars

\* one handler serving one user that moves reservations, the clock standing
\* still
NextMove == Serve(MoveLoad)

SpecMove == Init /\ [][NextMove]_vars

\* one handler serving one user that asks for hours that have begun, the
\* clock standing still
NextLate == Serve(LateLoad)

SpecLate == Init /\ [][NextLate]_vars

\* one handler serving one user on one room, with the clock
NextView ==
    \/ Serve(ViewLoad)
    \/ Tick(ViewLoad)

SpecView == Init /\ [][NextView]_vars

(***************************************************************************)
(* Vocabulary of the properties                                            *)
(***************************************************************************)
Live(b) == b.status \in {"CONFIRMED", "COMPLETED"}

Intersect(s1, e1, s2, e2) == s1 < e2 /\ s2 < e1

ValidationErrors == {"validation_midnight", "validation_max", "validation_end"}
QuotaErrors == {"quota_daily", "quota_weekly"}
TimingErrors == {"timing_started", "timing_lead"}

\* handler h sends its response in this step
Responds(h) == pc[h] # "done" /\ pc'[h] = "done"

\* the user's non-cancelled reservations that start on calendar day d
OnDay(bs, userId, d) ==
    { i \in Ids(bs) :
        bs[i].userId = userId /\ bs[i].status # "CANCELLED" /\ DayIndex(bs[i].startTime) = d }

\* the non-cancelled reservations of a room that intersect [s, e)
Occupying(bs, roomId, s, e) ==
    { i \in Ids(bs) :
        /\ bs[i].roomId = roomId
        /\ bs[i].status # "CANCELLED"
        /\ Intersect(bs[i].startTime, bs[i].endTime, s, e) }

(***************************************************************************)
(* C1: in every reachable state no two non-cancelled reservations of one   *)
(* room have intersecting [start, end) intervals.                          *)
(***************************************************************************)
C1_NoDoubleBooking ==
    \A i \in Ids(bookings), j \in Ids(bookings) :
        ( /\ i # j
          /\ bookings[i].roomId = bookings[j].roomId
          /\ bookings[i].status # "CANCELLED"
          /\ bookings[j].status # "CANCELLED" )
        => ~Intersect(bookings[i].startTime, bookings[i].endTime,
                      bookings[j].startTime, bookings[j].endTime)

(***************************************************************************)
(* C2: of two create requests for intersecting intervals of one bookable   *)
(* room that both passed validation and quota, when one has returned the   *)
(* created reservation the other has returned the conflict error, and the  *)
(* store holds exactly one CONFIRMED reservation intersecting the          *)
(* interval.                                                               *)
(***************************************************************************)
C2_LoserGetsConflict ==
    \A h1 \in Handlers, h2 \in Handlers :
        ( /\ h1 # h2
          /\ pc[h1] = "done" /\ pc[h2] = "done"
          /\ req[h1].op = "POST" /\ req[h2].op = "POST"
          /\ req[h1].target = req[h2].target
          /\ RoomAvailable(req[h1].target)
          /\ Intersect(req[h1].startTime, req[h1].endTime,
                       req[h2].startTime, req[h2].endTime)
          /\ res[h1] = "created"
          /\ res[h2] \notin ValidationErrors \cup QuotaErrors )
        => /\ res[h2] = "conflict"
           /\ Cardinality({ i \in Occupying(bookings, req[h2].target,
                                             req[h2].startTime, req[h2].endTime) :
                               bookings[i].status = "CONFIRMED" }) = 1

(***************************************************************************)
(* C3: no user ever has more than DAILY_BOOKING_CAP non-cancelled          *)
(* reservations starting on the same calendar day.                         *)
(***************************************************************************)
C3_DailyCapKept ==
    \A u \in Users : \A i \in Ids(bookings) :
        Cardinality(OnDay(bookings, u, DayIndex(bookings[i].startTime))) <= DAILY_BOOKING_CAP

(***************************************************************************)
(* C4: every reservation has exactly one fairness snapshot, of its owner,  *)
(* and every snapshot refers to a stored reservation; the two tables       *)
(* change only in the step of a create request that returns the created    *)
(* reservation, which adds one CONFIRMED row and one snapshot of that row; *)
(* a create request that returns an error leaves both tables as they were. *)
(***************************************************************************)
SnapshotPerBooking ==
    /\ \A i \in Ids(bookings) :
          Cardinality({ sn \in snapshots :
                          sn.bookingId = i /\ sn.userId = bookings[i].userId }) = 1
    /\ \A sn \in snapshots : sn.bookingId \in Ids(bookings)
    /\ Cardinality(snapshots) = Len(bookings)

AdmitsOne(h) ==
    /\ Len(bookings') = Len(bookings) + 1
    /\ SubSeq(bookings', 1, Len(bookings)) = bookings
    /\ bookings'[Len(bookings')].status = "CONFIRMED"
    /\ bookings'[Len(bookings')].roomId = req[h].target
    /\ bookings'[Len(bookings')].userId = req[h].userId
    /\ bookings'[Len(bookings')].startTime = req[h].startTime
    /\ bookings'[Len(bookings')].endTime = req[h].endTime
    /\ \E sn \in snapshots' \ snapshots :
          /\ sn.bookingId = Len(bookings')
          /\ snapshots' = snapshots \cup {sn}

AdmitAllOrNothing ==
    /\ \A h \in Handlers :
          (Responds(h) /\ req'[h].op = "POST") =>
              IF res'[h] = "created"
              THEN AdmitsOne(h)
              ELSE bookings' = bookings /\ snapshots' = snapshots
    /\ (Len(bookings') # Len(bookings) \/ snapshots' # snapshots) =>
          \E h \in Handlers : Responds(h) /\ req[h].op = "POST" /\ res'[h] = "created"

C4_AdmitAtomic == []SnapshotPerBooking /\ [][AdmitAllOrNothing]_vars

\* a create request was turned down inside the transaction while the store
\* holds a reservation with its snapshot
C4_Witness ==
    /\ Len(bookings) >= 1
    /\ \E h \in Handlers :
          pc[h] = "done" /\ req[h].op = "POST" /\ res[h] \in {"conflict", "unavailable"}

(***************************************************************************)
(* C5: a create request with end - start > MAX_BOOKING_HOURS is answered   *)
(* with a validation error in the step that receives it and changes        *)
(* neither table, whatever the store holds.                                *)
(***************************************************************************)
TooLongRejected ==
    \A h \in Handlers :
        ( /\ pc[h] = "idle"
          /\ req'[h].op = "POST"
          /\ req'[h].endTime - req'[h].startTime > MAX_BOOKING_HOURS * MinutesPerHour )
        => /\ pc'[h] = "done"
           /\ res'[h] \in ValidationErrors
           /\ bookings' = bookings
           /\ snapshots' = snapshots

C5_TooLongRejected == [][TooLongRejected]_vars

\* a 2.5 hour request by a user who is at the daily cap was turned down for
\* its duration
C5_Witness ==
    \E h \in Handlers :
        /\ pc[h] = "done" /\ req[h].op = "POST"
        /\ req[h].endTime - req[h].startTime = 150
        /\ res[h] = "validation_max"
        /\ Cardinality(OnDay(bookings, req[h].userId, DayIndex(req[h].startTime)))
              >= DAILY_BOOKING_CAP

(***************************************************************************)
(* C6: a valid create request whose daily count query runs while the user  *)
(* has DAILY_BOOKING_CAP or more non-cancelled reservations starting on    *)
(* the day of the requested start reads that count, and is then answered   *)
(* with the daily quota error, changing neither table.                     *)
(***************************************************************************)
DailyCapRejected ==
    \A h \in Handlers :
        /\ (pc[h] = "post_daily" /\ pc'[h] # "post_daily")
             => loc'[h].daily =
                    Cardinality(OnDay(bookings, req[h].userId, DayIndex(req[h].startTime)))
        /\ (pc[h] = "post_weekly" /\ pc'[h] # "post_weekly"
               /\ loc[h].daily >= DAILY_BOOKING_CAP)
             => /\ pc'[h] = "done"
                /\ res'[h] = "quota_daily"
                /\ bookings' = bookings
                /\ snapshots' = snapshots

C6_DailyCapRejected == [][DailyCapRejected]_vars

\* the daily quota error was returned for a free interval of an active room
C6_Witness ==
    \E h \in Handlers :
        /\ pc[h] = "done" /\ req[h].op = "POST" /\ res[h] = "quota_daily"
        /\ RoomAvailable(req[h].target)
        /\ Occupying(bookings, req[h].target, req[h].startTime, req[h].endTime) = {}
        /\ Cardinality(OnDay(bookings, req[h].userId, DayIndex(req[h].startTime)))
              = DAILY_BOOKING_CAP

(***************************************************************************)
(* C8: every stored reservation has end > start, lasts at most             *)
(* MAX_BOOKING_HOURS, and starts and ends on the same calendar day.        *)
(***************************************************************************)
C8_StoredIntervalsValid ==
    \A i \in Ids(bookings) :
        /\ bookings[i].endTime > bookings[i].startTime
        /\ bookings[i].endTime - bookings[i].startTime <= MAX_BOOKING_HOURS * MinutesPerHour
        /\ DayIndex(bookings[i].startTime) = DayIndex(bookings[i].endTime)

\* an update that supplied only a new end, or only a new start, was stored
C8_Witness ==
    \E h \in Handlers :
        /\ pc[h] = "done" /\ req[h].op = "PUT" /\ res[h] = "updated"
        /\ (req[h].startTime = NoTime) # (req[h].endTime = NoTime)
        /\ bookings[req[h].target].startTime # loc[h].existing.startTime
              \/ bookings[req[h].target].endTime # loc[h].existing.endTime

(***************************************************************************)
(* C7: checkUserBookingLimits returns as dailyCount the number of the      *)
(* user's CONFIRMED or COMPLETED reservations that start on the calendar   *)
(* day of the date, as weeklyHours the summed duration of those that start *)
(* in the seven days from the Sunday on or before the date, and canBook =  *)
(* FALSE exactly when dailyCount >= 2 or weeklyHours >= 6.                 *)
(***************************************************************************)
\* the Sunday-based week of an instant, day 0 being a Sunday
WeekIndex(t) == DayIndex(t) \div DaysPerWeek

CountedOnDay(bs, userId, date) ==
    { i \in Ids(bs) :
        bs[i].userId = userId /\ Live(bs[i]) /\ DayIndex(bs[i].startTime) = DayIndex(date) }

CountedInWeek(bs, userId, date) ==
    { i \in Ids(bs) :
        bs[i].userId = userId /\ Live(bs[i]) /\ WeekIndex(bs[i].startTime) = WeekIndex(date) }

\* reference dates: Tuesday morning and late evening, Saturday, next Sunday
QuotaDates == { At(2, 10, 0), At(2, 23, 0), At(6, 10, 0), At(7, 10, 0) }

C7_QuotaComputed ==
    \A u \in Users, d \in QuotaDates :
        LET q == checkUserBookingLimits(bookings, u, d)
        IN  /\ q.dailyCount = Cardinality(CountedOnDay(bookings, u, d))
            /\ q.weeklyMin = SumDurations(bookings, CountedInWeek(bookings, u, d))
            /\ (~q.canBook) <=>
                  ( \/ q.dailyCount >= 2
                    \/ q.weeklyMin >= 6 * MinutesPerHour )
            /\ \A i \in Ids(bookings) : bookings[i].status \in {"CONFIRMED", "COMPLETED", "CANCELLED"}

\* a user with a COMPLETED Tuesday reservation and six booked hours in the
\* week may not book on Saturday, where the daily count is one
C7_Witness ==
    \E u \in Users :
        LET q == checkUserBookingLimits(bookings, u, At(6, 10, 0))
        IN  /\ ~q.canBook
            /\ q.dailyCount = 1
            /\ q.weeklyMin = 6 * MinutesPerHour
            /\ \E i \in Ids(bookings) :
                  bookings[i].userId = u /\ bookings[i].status = "COMPLETED"

(***************************************************************************)
(* C9: an update request of the owner on a reservation whose stored start  *)
(* is at or before now, or less than 15 minutes after now, is answered     *)
(* with a timing error and leaves the store unchanged, whichever fields it *)
(* supplies; with 15 minutes or more to go it gets no timing error.        *)
(***************************************************************************)
ModifyTimingRule ==
    \A h \in Handlers :
        ( /\ pc[h] = "idle"
          /\ req'[h].op = "PUT"
          /\ req'[h].target \in Ids(bookings)
          /\ bookings[req'[h].target].userId = req'[h].userId )
        => LET start == bookings[req'[h].target].startTime
           IN  IF start <= now \/ start - now < 15
               THEN /\ pc'[h] = "done"
                    /\ res'[h] \in TimingErrors
                    /\ bookings' = bookings
               ELSE res'[h] \notin TimingErrors

C9_ModifyTimingRule == [][ModifyTimingRule]_vars

\* an update of the purpose was turned down 10 minutes before the start
C9_Witness ==
    \E h \in Handlers :
        /\ pc[h] = "done" /\ req[h].op = "PUT" /\ res[h] = "timing_lead"
        /\ req[h].purpose # NoPurpose
        /\ bookings[req[h].target].startTime - now = 10

(***************************************************************************)
(* C10: a cancel request of the owner is answered with a timing error, the *)
(* store unchanged, when the stored start is at or before now or less than *)
(* 15 minutes after now; otherwise it goes on to set the status to         *)
(* CANCELLED, changing neither the interval, the room nor the owner of the *)
(* reservation, and no other row.                                          *)
(***************************************************************************)
CancelTimingRule ==
    \A h \in Handlers :
        /\ ( /\ pc[h] = "idle"
             /\ req'[h].op = "DELETE"
             /\ req'[h].target \in Ids(bookings)
             /\ bookings[req'[h].target].userId = req'[h].userId )
           => LET start == bookings[req'[h].target].startTime
              IN  IF start <= now \/ start - now < 15
                  THEN /\ pc'[h] = "done"
                       /\ res'[h] \in TimingErrors
                       /\ bookings' = bookings
                  ELSE pc'[h] = "delete_update" /\ bookings' = bookings
        /\ (pc[h] = "delete_update" /\ pc'[h] # "delete_update")
           => LET id == req[h].target
              IN  /\ res'[h] = "cancelled"
                  /\ bookings'[id].status = "CANCELLED"
                  /\ bookings'[id].startTime = bookings[id].startTime
                  /\ bookings'[id].endTime = bookings[id].endTime
                  /\ bookings'[id].roomId = bookings[id].roomId
                  /\ bookings'[id].userId = bookings[id].userId
                  /\ \A j \in Ids(bookings) \ {id} : bookings'[j] = bookings[j]
                  /\ Len(bookings') = Len(bookings)

C10_CancelTimingRule == [][CancelTimingRule]_vars

\* a cancel request was turned down at the very start of a reservation,
\* which stays CONFIRMED
C10_Witness ==
    \E h \in Handlers :
        /\ pc[h] = "done" /\ req[h].op = "DELETE" /\ res[h] = "timing_started"
        /\ bookings[req[h].target].startTime = now
        /\ bookings[req[h].target].status = "CONFIRMED"

(***************************************************************************)
(* C11: a reservation whose status is CANCELLED or COMPLETED keeps that    *)
(* status in every step; a status only ever changes from CONFIRMED, to     *)
(* COMPLETED or to CANCELLED.                                              *)
(***************************************************************************)
TerminalStatusKept ==
    \A i \in Ids(bookings) :
        bookings'[i].status # bookings[i].status
        => /\ bookings[i].status = "CONFIRMED"
           /\ bookings'[i].status \in {"COMPLETED", "CANCELLED"}

C11_TerminalStatusKept == [][TerminalStatusKept]_vars

(***************************************************************************)
(* C12: a reservation whose status is CANCELLED is not changed by any      *)
(* step: start, end, purpose, party size, status and update timestamp stay *)
(* as they are.                                                            *)
(***************************************************************************)
CancelledImmutable ==
    \A i \in Ids(bookings) :
        bookings[i].status = "CANCELLED" => bookings'[i] = bookings[i]

C12_CancelledImmutable == [][CancelledImmutable]_vars

(***************************************************************************)
(* C13: a cancelled reservation blocks nothing: a create request for the   *)
(* same room, start and end as a CANCELLED row, which passes validation    *)
(* and quota and meets no conflict, no unavailable room and no concurrent  *)
(* transaction, returns the created reservation, and the CANCELLED row is  *)
(* still stored.                                                           *)
(***************************************************************************)
\* the CANCELLED rows that hold the request's room, start and end
CancelledTwins(r) ==
    { i \in Ids(bookings) :
        /\ bookings[i].status = "CANCELLED"
        /\ bookings[i].roomId = r.target
        /\ bookings[i].startTime = r.startTime
        /\ bookings[i].endTime = r.endTime }

C13_CancelledBlocksNothing ==
    \A h \in Handlers :
        ( /\ pc[h] = "done"
          /\ req[h].op = "POST"
          /\ CancelledTwins(req[h]) # {}
          /\ res[h] \notin ValidationErrors \cup QuotaErrors
          /\ res[h] \notin {"conflict", "unavailable", "serialization"} )
        => res[h] = "created"

(***************************************************************************)
(* C14: the step in which an update request succeeds changes, in the row   *)
(* it targets, at most the fields the request supplies among start, end,   *)
(* purpose and party size, and the update timestamp; the unsupplied fields *)
(* and the room, owner and status of the row keep the values they had      *)
(* before the step, and no other row changes.                              *)
(***************************************************************************)
UpdateFrame(h) ==
    LET id == req[h].target
        r == req[h]
    IN  /\ r.startTime = NoTime => bookings'[id].startTime = bookings[id].startTime
        /\ r.endTime = NoTime => bookings'[id].endTime = bookings[id].endTime
        /\ r.purpose = NoPurpose => bookings'[id].purpose = bookings[id].purpose
        /\ r.partySize = NoParty => bookings'[id].partySize = bookings[id].partySize
        /\ bookings'[id].roomId = bookings[id].roomId
        /\ bookings'[id].userId = bookings[id].userId
        /\ bookings'[id].status = bookings[id].status
        /\ Len(bookings') = Len(bookings)
        /\ \A j \in Ids(bookings) \ {id} : bookings'[j] = bookings[j]

OnlySuppliedFieldsChange ==
    \A h \in Handlers :
        (Responds(h) /\ req[h].op = "PUT" /\ res'[h] = "updated") => UpdateFrame(h)

C14_OnlySuppliedFieldsChange == [][OnlySuppliedFieldsChange]_vars

(***************************************************************************)
(* C15: an update request that supplies a start or an end reaches the      *)
(* update statement only through the conflict query; the query answers     *)
(* with the conflict error, the store unchanged, exactly when a            *)
(* non-cancelled row of the same room other than the one being modified    *)
(* intersects the new [start, end), and otherwise goes on to the update;   *)
(* an update request returns the conflict error in no other step.          *)
(***************************************************************************)
\* the other non-cancelled rows of the room that intersect the new interval
OthersInTheWay(h) ==
    Occupying(bookings, bookings[req[h].target].roomId,
              FinalStartTime(req[h], loc[h].existing),
              FinalEndTime(req[h], loc[h].existing)) \ {req[h].target}

ModifyConflictRule ==
    \A h \in Handlers :
        /\ (pc[h] = "put_conflict" /\ pc'[h] # "put_conflict")
             => IF OthersInTheWay(h) # {}
                THEN pc'[h] = "done" /\ res'[h] = "conflict" /\ bookings' = bookings
                ELSE pc'[h] = "put_update" /\ bookings' = bookings
        /\ (Responds(h) /\ req'[h].op = "PUT" /\ res'[h] = "conflict")
             => pc[h] = "put_conflict"
        /\ (pc[h] # "put_update" /\ pc'[h] = "put_update" /\ TimeSupplied(req'[h]))
             => pc[h] = "put_conflict"

C15_ModifyConflictRule == [][ModifyConflictRule]_vars

\* a reservation was moved to a window that overlaps its own old window
\* while an adjacent reservation of another request holds the same room
C15_Witness ==
    \E h \in Handlers :
        LET id == req[h].target
            old == loc[h].existing
        IN  /\ pc[h] = "done" /\ req[h].op = "PUT" /\ res[h] = "updated"
            /\ TimeSupplied(req[h])
            /\ <<bookings[id].startTime, bookings[id].endTime>> # <<old.startTime, old.endTime>>
            /\ Intersect(bookings[id].startTime, bookings[id].endTime,
                         old.startTime, old.endTime)
            /\ \E j \in Ids(bookings) \ {id} :
                  bookings[j].roomId = bookings[id].roomId /\ bookings[j].status = "CONFIRMED"

(***************************************************************************)
(* C16: an update request that lengthens a reservation is answered with a  *)
(* quota error, the store unchanged, whenever the minutes the user has     *)
(* booked in the week of the new start plus the added minutes exceed       *)
(* WEEKLY_HOURS_CAP hours; and after a successful update the owner's       *)
(* booked minutes in the week of the updated reservation do not exceed the *)
(* cap.                                                                    *)
(***************************************************************************)
\* minutes the user has booked in the Sunday-based week of an instant
BookedInWeek(bs, userId, t) == SumDurations(bs, CountedInWeek(bs, userId, t))

LengthenQuotaRule ==
    \A h \in Handlers :
        /\ (pc[h] = "put_weekly" /\ pc'[h] # "put_weekly")
             => LET newStartTime == FinalStartTime(req[h], loc[h].existing)
                    newEndTime == FinalEndTime(req[h], loc[h].existing)
                    added == (newEndTime - newStartTime) - Duration(loc[h].existing)
                IN  (added > 0 /\ BookedInWeek(bookings, req[h].userId, newStartTime) + added
                                     > WEEKLY_HOURS_CAP * MinutesPerHour)
                    => /\ pc'[h] = "done"
                       /\ res'[h] \in QuotaErrors
                       /\ bookings' = bookings
        /\ (Responds(h) /\ req[h].op = "PUT" /\ res'[h] = "updated")
             => BookedInWeek(bookings', req[h].userId, bookings'[req[h].target].startTime)
                    <= WEEKLY_HOURS_CAP * MinutesPerHour

C16_LengthenQuotaRule == [][LengthenQuotaRule]_vars

(***************************************************************************)
(* C17: every stored reservation is of a room that exists, has type STUDY  *)
(* and status ACTIVE; a create request for any other room that reaches the *)
(* transaction is answered with the not-available error, and no create     *)
(* request for such a room adds a reservation or a snapshot.               *)
(***************************************************************************)
Bookable(roomId) ==
    /\ Room(roomId) # NoRoom
    /\ Room(roomId).type = "STUDY"
    /\ Room(roomId).status = "ACTIVE"

RowsOfBookableRooms == \A i \in Ids(bookings) : Bookable(bookings[i].roomId)

UnbookableRejected ==
    \A h \in Handlers :
        /\ (pc[h] = "post_tx" /\ pc'[h] # "post_tx" /\ ~Bookable(req[h].target))
             => pc'[h] = "done" /\ res'[h] = "unavailable"
        /\ (Responds(h) /\ req'[h].op = "POST" /\ ~Bookable(req'[h].target))
             => /\ res'[h] # "created"
                /\ bookings' = bookings
                /\ snapshots' = snapshots

C17_OnlyBookableRooms == []RowsOfBookableRooms /\ [][UnbookableRejected]_vars

\* a create request for a study room in maintenance was turned down while
\* the user holds a reservation
C17_Witness ==
    \E h \in Handlers :
        /\ pc[h] = "done" /\ req[h].op = "POST" /\ res[h] = "unavailable"
        /\ Room(req[h].target) = [type |-> "STUDY", status |-> "MAINTENANCE"]
        /\ \E i \in Ids(bookings) : bookings[i].userId = req[h].userId

(***************************************************************************)
(* C18: an update or cancel request for a stored reservation made by a     *)
(* user other than its owner is answered with the forbidden error in the   *)
(* step that receives it, the store unchanged, whatever the clock and the  *)
(* fields supplied; and every step of a request handler that changes a     *)
(* row is a step of an update or cancel request of the row's owner for     *)
(* that row.                                                               *)
(***************************************************************************)
OwnerOnly ==
    /\ \A h \in Handlers :
          ( /\ pc[h] = "idle"
            /\ req'[h].op \in {"PUT", "DELETE"}
            /\ req'[h].target \in Ids(bookings)
            /\ bookings[req'[h].target].userId # req'[h].userId )
          => /\ pc'[h] = "done"
             /\ res'[h] = "forbidden"
             /\ bookings' = bookings
    /\ \A i \in Ids(bookings) :
          (bookings'[i] # bookings[i] /\ pc' # pc)
          => \E h \in Handlers :
                /\ pc'[h] # pc[h]
                /\ req[h].op \in {"PUT", "DELETE"}
                /\ req[h].target = i
                /\ req[h].userId = bookings[i].userId

C18_OwnerOnly == [][OwnerOnly]_vars

\* another user's update request that carries a new end was turned down as
\* forbidden after the reservation had started
C18_Witness ==
    \E h \in Handlers :
        /\ pc[h] = "done" /\ req[h].op = "PUT" /\ res[h] = "forbidden"
        /\ req[h].endTime # NoTime
        /\ bookings[req[h].target].userId # req[h].userId
        /\ bookings[req[h].target].startTime <= now

(***************************************************************************)
(* C19: a cancel request of the owner for a reservation that is already    *)
(* CANCELLED returns the result of the cancel request that cancelled it    *)
(* (cancelled), at any time, and leaves the stored reservation as it is.   *)
(***************************************************************************)
CancelIdempotent ==
    \A h \in Handlers :
        ( /\ Responds(h)
          /\ req'[h].op = "DELETE"
          /\ req'[h].target \in Ids(bookings)
          /\ bookings[req'[h].target].status = "CANCELLED"
          /\ bookings[req'[h].target].userId = req'[h].userId )
        => /\ res'[h] = "cancelled"
           /\ bookings' = bookings

C19_CancelIdempotent == [][CancelIdempotent]_vars

(***************************************************************************)
(* C20: for every date the generated slots are ordered by start, each      *)
(* SLOT_MINUTES (30) long, each starting where the previous one ends, the  *)
(* first starting at the operating-hours start and the last ending at the  *)
(* operating-hours end, their number the operating minutes divided by 30:  *)
(* 48 slots from 00:00 to the next midnight in lib/utils, 28 slots from    *)
(* 8:00 to 22:00 in lib/availability; every slot's id and date field carry *)
(* the date asked for, with the hour and the minute of its start.          *)
(***************************************************************************)
\* dates asked for: the instants of the reservations and of the clock, and
\* the last minute of a Sunday that is the 29th of the month before
SlotDates ==
    { bookings[i].startTime : i \in Ids(bookings) } \cup { now, At(0, 23, 59) }

\* the slots run from minute `first` to minute `last` of the day of the date
SlotsTile(slots, date, first, last) ==
    LET count == (last - first) \div 30
    IN  /\ Len(slots) = count
        /\ slots[1].startTime = DayIndex(date) * 1440 + first
        /\ slots[count].endTime = DayIndex(date) * 1440 + last
        /\ \A k \in 1 .. count :
              LET slot == slots[k]
              IN  /\ slot.endTime - slot.startTime = 30
                  /\ k < count => slots[k + 1].startTime = slot.endTime
                  /\ slot.date = <<MonthStartDay(date), DayIndex(date) - MonthStartDay(date) + 1>>
                  /\ slot.id = <<slot.date, (slot.startTime % 1440) \div 60, slot.startTime % 60>>

ViewDates == { bookings[i].startTime : i \in Ids(bookings) } \cup { now, At(1, 12, 0) }

\* the slot from minute s of the timeline is past
PastSlot(date, s) == DayIndex(date) = DayIndex(now) /\ s <= now

\* the slot [s, s + 30) lies within a non-cancelled reservation of the room
CoveredSlot(roomId, s) ==
    \E i \in Ids(bookings) :
        /\ bookings[i].roomId = roomId
        /\ bookings[i].status # "CANCELLED"
        /\ bookings[i].startTime <= s
        /\ s + 30 <= bookings[i].endTime

ViewAsClaimed(roomId, date) ==
    LET view == getRoomAvailability(bookings, roomId, date, now)
        SlotStart(k) == DayIndex(date) * 1440 + (k - 1) * 30
        Free(k) == ~PastSlot(date, SlotStart(k)) /\ ~CoveredSlot(roomId, SlotStart(k))
    IN  /\ view.totalSlots = 48
        /\ Len(view.slots) = 48
        /\ \A k \in 1 .. 48 :
              /\ view.slots[k].startTime = SlotStart(k)
              /\ view.slots[k].isAvailable = Free(k)
        /\ view.availableSlots = Cardinality({ k \in 1 .. 48 : Free(k) })

C21_ViewMarksCoveredAndPast ==
    \A roomId \in {2, 4} : \A date \in ViewDates : ViewAsClaimed(roomId, date)

\* a future date with a single reservation of the room, two hours long: its
\* four slots, and no others, are unavailable and 44 slots are available
C21_Witness ==
    \E i \in Ids(bookings) :
        LET b == bookings[i]
            view == getRoomAvailability(bookings, b.roomId, b.startTime, now)
        IN  /\ b.status = "CONFIRMED"
            /\ b.endTime - b.startTime = 120
            /\ DayIndex(b.startTime) > DayIndex(now)
            /\ DayBookings(bookings, b.roomId, b.startTime) = {i}
            /\ view.availableSlots = 44
            /\ { view.slots[k].startTime : k \in { j \in 1 .. 48 : ~view.slots[j].isAvailable } }
                   = { b.startTime, b.startTime + 30, b.startTime + 60, b.startTime + 90 }

(***************************************************************************)
(* C22: the slot generator seeds isAvailable = FALSE exactly for the slots *)
(* that start at or before the current instant when the date asked for is  *)
(* the current calendar date; every slot of another date is seeded         *)
(* available, whatever the time of day.  Stated of the generator of        *)
(* lib/utils and of the generator of lib/availability.                     *)
(***************************************************************************)
SeedAsClaimed(slots, date) ==
    \A k \in 1 .. Len(slots) :
        slots[k].isAvailable =
            ~(DayIndex(date) = DayIndex(now) /\ slots[k].startTime <= now)

\* the part of the statement that is about the generator of lib/utils
UtilsSeedAsClaimed ==
    \A date \in ViewDates : SeedAsClaimed(generateTimeSlots(date, now), date)

C22_SeedMarksStartedSlots ==
    \A date \in ViewDates :
        /\ SeedAsClaimed(generateTimeSlots(date, now), date)
        /\ SeedAsClaimed(availabilityGenerateTimeSlots(date), date)

(***************************************************************************)
(* C23: the fairness snapshot committed with an admitted reservation holds *)
(* the owner's counters as of the commit: dailyCount is the number of the  *)
(* owner's non-cancelled reservations that start on the day of the new     *)
(* one, the new one included, and weeklyCount is the owner's booked hours  *)
(* of that week, the new reservation included; also when other create      *)
(* requests of the same user commit concurrently.                          *)
(***************************************************************************)
SnapshotAsOfCommit ==
    \A h \in Handlers :
        (Responds(h) /\ req[h].op = "POST" /\ res'[h] = "created") =>
            \A sn \in snapshots' \ snapshots :
                /\ sn.dailyCount =
                       Cardinality(OnDay(bookings', req[h].userId, DayIndex(req[h].startTime)))
                /\ sn.weeklyCount * 60 =
                       BookedInWeek(bookings', req[h].userId, req[h].startTime)

C23_SnapshotAsOfCommit == [][SnapshotAsOfCommit]_vars

(***************************************************************************)
(* C24: the conflict query of a create request answers with the conflict   *)
(* error, the store unchanged, exactly when a non-cancelled row of the     *)
(* same room has start < newEnd and end > newStart; a create request       *)
(* returns the conflict error in no other step.  A request that starts     *)
(* exactly when a reservation of the room ends, or ends exactly when one   *)
(* starts, is not a conflict and is admitted.                              *)
(***************************************************************************)
\* the non-cancelled rows of the room with start < newEnd and end > newStart
InTheWay(h) ==
    { i \in Ids(bookings) :
        /\ bookings[i].roomId = req[h].target
        /\ bookings[i].status # "CANCELLED"
        /\ bookings[i].startTime < req[h].endTime
        /\ bookings[i].endTime > req[h].startTime }

AdmitConflictRule ==
    \A h \in Handlers :
        /\ (pc[h] = "post_tx" /\ pc'[h] # "post_tx")
             => /\ (pc'[h] = "done" /\ res'[h] = "conflict") <=> (InTheWay(h) # {})
                /\ bookings' = bookings
                /\ (InTheWay(h) = {} /\ Bookable(req[h].target)) => pc'[h] = "post_commit"
        /\ (Responds(h) /\ req'[h].op = "POST" /\ res'[h] = "conflict")
             => pc[h] = "post_tx"

C24_AdmitConflictRule == [][AdmitConflictRule]_vars

\* a create request was admitted for a window that begins at the end, or
\* ends at the start, of another non-cancelled reservation of the room
C24_Witness ==
    \E h \in Handlers :
        /\ pc[h] = "done" /\ req[h].op = "POST" /\ res[h] = "created"
        /\ \E i \in Ids(bookings) :
              /\ bookings[i].roomId = req[h].target
              /\ bookings[i].status # "CANCELLED"
              /\ \/ bookings[i].endTime = req[h].startTime
                 \/ bookings[i].startTime = req[h].endTime

(***************************************************************************)
(* C25: every create, update and cancel request eventually returns success *)
(* or an error to its caller, whatever concurrent requests on the same     *)
(* room and interval do: no request waits forever, and a transaction that  *)
(* cannot be serialized is answered with an error.                         *)
(***************************************************************************)
Answered(h) == pc[h] = "done" /\ res[h] # "none"

C25_EveryRequestAnswered ==
    \A h \in Handlers :
        /\ (pc[h] \notin {"idle", "done"}) ~> Answered(h)
        /\ (pc[h] = "post_commit" /\ loc[h].doomed)
              ~> (Answered(h) /\ res[h] = "serialization")

\* a create request that lost against a concurrent commit on the same room
\* and interval has been answered with the serialization error
C25_Witness ==
    \E h \in Handlers, g \in Handlers :
        /\ h # g
        /\ pc[h] = "done" /\ req[h].op = "POST" /\ res[h] = "serialization"
        /\ req[g].op = "POST" /\ res[g] = "created"
        /\ req[g].target = req[h].target
        /\ Intersect(req[g].startTime, req[g].endTime, req[h].startTime, req[h].endTime)

(***************************************************************************)
(* C26: when two concurrent update requests of the owner on the same       *)
(* reservation, one supplying only the purpose and the other only the      *)
(* party size, have both returned success, the reservation carries both    *)
(* new values.                                                             *)
(***************************************************************************)
OnlyPurpose(r) ==
    r.purpose # NoPurpose /\ r.partySize = NoParty /\ ~TimeSupplied(r)

OnlyPartySize(r) ==
    r.partySize # NoParty /\ r.purpose = NoPurpose /\ ~TimeSupplied(r)

C26_DisjointUpdatesBothApply ==
    \A h1 \in Handlers, h2 \in Handlers :
        ( /\ h1 # h2
          /\ pc[h1] = "done" /\ req[h1].op = "PUT" /\ res[h1] = "updated"
          /\ pc[h2] = "done" /\ req[h2].op = "PUT" /\ res[h2] = "updated"
          /\ req[h1].target = req[h2].target
          /\ req[h1].userId = req[h2].userId
          /\ OnlyPurpose(req[h1])
          /\ OnlyPartySize(req[h2]) )
        => /\ bookings[req[h1].target].purpose = req[h1].purpose
           /\ bookings[req[h2].target].partySize = req[h2].partySize

(***************************************************************************)
(* C27: when the requests are served one at a time, no user ever has more  *)
(* than DAILY_BOOKING_CAP (2) non-cancelled reservations that start on one *)
(* calendar day, also after an update request has moved a reservation to   *)
(* another day without lengthening it.                                     *)
(***************************************************************************)
\* the calendar days on which a stored reservation starts
BookedDays == { DayIndex(bookings[i].startTime) : i \in Ids(bookings) }

C27_DailyCapKeptOneAtATime ==
    \A u \in Users : \A d \in BookedDays :
        Cardinality({ i \in Ids(bookings) :
                        /\ bookings[i].userId = u
                        /\ bookings[i].status # "CANCELLED"
                        /\ DayIndex(bookings[i].startTime) = d }) <= 2

(***************************************************************************)
(* C28: a create request whose [start, end) is one generated slot, or a    *)
(* run of consecutive generated slots of at most two hours, passes the     *)
(* time validation of the create route; so does a request for the last     *)
(* slot of the day, which ends at the next midnight.                       *)
(***************************************************************************)
\* [s, e) is a run of consecutive generated slots of the day of s, of at most
\* two hours
SlotRun(s, e) ==
    LET slots == generateTimeSlots(s, now)
    IN  /\ e - s <= 120
        /\ \E k \in 1 .. Len(slots) : \E j \in k .. Len(slots) :
              slots[k].startTime = s /\ slots[j].endTime = e

SlotRunsPassValidation ==
    \A h \in Handlers :
        ( /\ pc[h] = "idle" /\ pc'[h] # "idle"
          /\ req'[h].op = "POST"
          /\ SlotRun(req'[h].startTime, req'[h].endTime) )
        => ~(pc'[h] = "done" /\ res'[h] \in ValidationErrors)

C28_SlotRunsPassValidation == [][SlotRunsPassValidation]_vars

(***************************************************************************)
(* C29: with requests served one at a time, a slot of an active study room *)
(* that the availability view marks available is intersected by no         *)
(* non-cancelled reservation of the room, and a create request for exactly *)
(* that slot is not answered with the conflict error; also when the stored *)
(* reservations are not aligned to the slots.                              *)
(***************************************************************************)
AvailableMeansFree ==
    \A roomId \in {2, 4} : \A date \in ViewDates :
        LET view == getRoomAvailability(bookings, roomId, date, now)
        IN  \A k \in 1 .. Len(view.slots) :
                view.slots[k].isAvailable =>
                    Occupying(bookings, roomId,
                              view.slots[k].startTime, view.slots[k].endTime) = {}

\* a create request for a slot the view of the store marks available
AsksAvailableSlot(r) ==
    LET view == getRoomAvailability(bookings, r.target, r.startTime, now)
    IN  \E k \in 1 .. Len(view.slots) :
            /\ view.slots[k].startTime = r.startTime
            /\ view.slots[k].endTime = r.endTime
            /\ view.slots[k].isAvailable

AvailableSlotAdmitted ==
    \A h \in Handlers :
        ( /\ Responds(h) /\ req[h].op = "POST" /\ res'[h] = "conflict"
          /\ Bookable(req[h].target) )
        => ~AsksAvailableSlot(req[h])

C29_ViewAgreesWithAdmission == []AvailableMeansFree /\ [][AvailableSlotAdmitted]_vars

(***************************************************************************)
(* C30: no reservation gets a start that is at or before the current       *)
(* instant of the request: a create request never stores one, and an       *)
(* update request that succeeds never moves the start of a reservation to  *)
(* such an instant or to less than 15 minutes ahead.                       *)
(***************************************************************************)
\* the part of the statement that is about create requests
CreatedAhead ==
    \A h \in Handlers :
        (Responds(h) /\ req[h].op = "POST" /\ res'[h] = "created")
            => bookings'[Len(bookings')].startTime > now

\* the part of the statement that is about update requests
MovedAhead ==
    \A h \in Handlers :
        ( /\ Responds(h) /\ req[h].op = "PUT" /\ res'[h] = "updated"
          /\ bookings'[req[h].target].startTime # bookings[req[h].target].startTime )
        => bookings'[req[h].target].startTime - now >= 15

StartsAhead == CreatedAhead /\ MovedAhead

C30_StartsAhead == [][StartsAhead]_vars

====
